---- MODULE Spec2Model ----
(***************************************************************************)
(* A model of github.com/aarock1234/mimic: the version parser, the three   *)
(* fingerprint registries (Chromium, Safari, Firefox), ClientSpec and its  *)
(* ConfigureTransport, NewTransport, and Transport.RoundTrip.              *)
(*                                                                         *)
(* Go strings that the code takes apart (version strings) are sequences of *)
(* one-character strings.  Go pointers to objects that are shared and      *)
(* mutated (the caller's *http.Transport, ClientHelloSpec templates) are   *)
(* variables or heap addresses.  An optional value is <<>> (nil) or <<x>>. *)
(***************************************************************************)
EXTENDS Integers, Sequences, FiniteSets, TLC

VARIABLES
    version,   \* the version string handed to a constructor
    ctorRes,   \* what the last constructor call returned
    spec,      \* the *ClientSpec the transport operations work with
    bt,        \* the caller-held *http.Transport (WithBaseTransport / ConfigureTransport)
    dt,        \* the *http.Transport made by defaultTransport() inside NewTransport
    tr,        \* the *Transport returned by NewTransport, <<>> before
    last,      \* the last operation and what it returned
    heap,      \* the ClientHelloSpec templates allocated so far, by address
    reqs,      \* the *http.Request objects: their Header maps
    calls,     \* the RoundTrip calls in progress, one per caller goroutine
    utls       \* the ClientHelloIDs the linked utls release resolves

vars == <<version, ctorRes, spec, bt, dt, tr, last, heap, reqs, calls, utls>>

----------------------------------------------------------------------------
(* Bounds of the model *)

\* the longest major-version prefix (the part before the first '.') tried
MaxMajorLen == 3

\* how many ClientHelloSpec templates the suppliers may allocate in one run
MaxTemplates == 3

None == <<>>
Some(x) == <<x>>

Range(s) == {s[i] : i \in 1..Len(s)}

----------------------------------------------------------------------------
(* Platforms, brands, errors *)

PlatformWindows == "win"
PlatformMac == "mac"
PlatformLinux == "linux"
PlatformIOS == "ios"
PlatformIPadOS == "ipados"
Platforms == {PlatformWindows, PlatformMac, PlatformLinux, PlatformIOS, PlatformIPadOS}

BrandChrome == "Google Chrome"
BrandBrave == "Brave"
BrandEdge == "Microsoft Edge"
Brands == {BrandChrome, BrandBrave, BrandEdge}

ErrUnsupportedVersion == "unsupported version"
ErrUnsupportedPlatform == "unsupported platform"
\* errors of the collaborators: strconv's, utls's and http2's
ErrSyntax == "strconv: invalid syntax"
ErrUnknownHello == "utls: unknown ClientHelloID"
ErrHTTP2Registered == "http2: protocol https already registered"

\* An error value: the sentinel errors.Is finds at the end of its %w chain, and
\* the message prefixes wrapped around it, outermost first.  nil is NoError.
NoError == [is |-> "nil", msg |-> <<>>]
NewError(sentinel) == [is |-> sentinel, msg |-> <<>>]
\* fmt.Errorf("prefix: %w", err)
Wrap(prefix, err) == [is |-> err.is, msg |-> <<prefix>> \o err.msg]
\* errors.Is(err, target)
ErrorsIs(err, target) == err.is = target

----------------------------------------------------------------------------
(* Version parser *)

Digits == {"0", "1", "2", "3", "4", "5", "6", "7", "8", "9"}

DigitVal(c) ==
    CASE c = "0" -> 0 [] c = "1" -> 1 [] c = "2" -> 2 [] c = "3" -> 3
      [] c = "4" -> 4 [] c = "5" -> 5 [] c = "6" -> 6 [] c = "7" -> 7
      [] c = "8" -> 8 [] c = "9" -> 9

\* strings.SplitN(version, ".", 2)[0]: the part before the first '.'
RECURSIVE MajorPrefix(_)
MajorPrefix(s) ==
    IF s = <<>> \/ Head(s) = "." THEN <<>>
    ELSE <<Head(s)>> \o MajorPrefix(Tail(s))

\* A digit loop that stops at the first byte that is no digit and keeps what it
\* has read, as C's atoi does.
RECURSIVE AtoiLoop_StopAtNonDigit(_, _)
AtoiLoop_StopAtNonDigit(s, n) ==
    IF s = <<>> \/ Head(s) \notin Digits THEN [ok |-> TRUE, n |-> n]
    ELSE AtoiLoop_StopAtNonDigit(Tail(s), n * 10 + DigitVal(Head(s)))

\* The digit loop of strconv.Atoi: n = n*10 + int(ch), a syntax error at the
\* first byte that is no digit.
RECURSIVE AtoiLoop(_, _)
AtoiLoop(s, n) ==
    IF s = <<>> THEN [ok |-> TRUE, n |-> n]
    ELSE IF Head(s) \notin Digits THEN [ok |-> FALSE, n |-> 0]
    ELSE AtoiLoop(Tail(s), n * 10 + DigitVal(Head(s)))

\* A parser of unsigned numbers only: a sign is a syntax error.
Atoi_NoSign(s) ==
    IF s = <<>> \/ ~AtoiLoop(s, 0).ok THEN [ok |-> FALSE, n |-> 0]
    ELSE [ok |-> TRUE, n |-> AtoiLoop(s, 0).n]

\* strconv.Atoi on a string short enough for its fast path: an optional sign,
\* then one digit at least.
Atoi(s) ==
    IF s = <<>> THEN [ok |-> FALSE, n |-> 0]
    ELSE LET signed == Head(s) \in {"-", "+"}
             body == IF signed THEN Tail(s) ELSE s
             r == AtoiLoop(body, 0)
         IN  IF body = <<>> \/ ~r.ok THEN [ok |-> FALSE, n |-> 0]
             ELSE [ok |-> TRUE, n |-> IF Head(s) = "-" THEN 0 - r.n ELSE r.n]

parseMajorVersion(v) ==
    LET majorStr == MajorPrefix(v)
        a == Atoi(majorStr)
    IN  IF ~a.ok
        THEN [majorStr |-> <<>>, majorNum |-> 0,
              err |-> Wrap("parsing major version", NewError(ErrSyntax))]
        ELSE [majorStr |-> majorStr, majorNum |-> a.n, err |-> NoError]

----------------------------------------------------------------------------
(* The TLS collaborator (utls) *)

ChromiumHelloIDs ==
    {"HelloChrome_100", "HelloChrome_102", "HelloChrome_106_Shuffle",
     "HelloChrome_112_PSK_Shuf", "HelloChrome_114_Padding_PSK_Shuf",
     "HelloChrome_115_PQ", "HelloChrome_120", "HelloChrome_131", "HelloChrome_133"}
FirefoxHelloIDs ==
    {"HelloFirefox_55", "HelloFirefox_56", "HelloFirefox_63", "HelloFirefox_65",
     "HelloFirefox_99", "HelloFirefox_102", "HelloFirefox_105", "HelloFirefox_120"}
SafariHelloIDs == {"HelloSafari_16_0", "HelloIOS_14"}

\* every hello id the registries name
AllHelloIDs == ChromiumHelloIDs \cup FirefoxHelloIDs \cup SafariHelloIDs

\* The hello ids the linked utls release resolves.
KnownHelloIDs == utls

\* utls.UTLSIdToSpec(id): a ClientHelloSpec value built anew, or an error.  The
\* template's content is its id and whether a handshake has applied it yet.
UTLSIdToSpec(id) ==
    IF id \in KnownHelloIDs
    THEN [spec |-> [hello |-> id, applied |-> FALSE], err |-> NoError]
    ELSE [spec |-> [hello |-> "", applied |-> FALSE], err |-> NewError(ErrUnknownHello)]

validateTLSHelloID(id) ==
    LET r == UTLSIdToSpec(id)
    IN  IF r.err # NoError THEN Wrap("resolving tls spec", r.err) ELSE NoError

\* A TLS hello supplier, the closure newTLSSpecFunc(id) returns, is the hello id
\* it captured; NoSupplier is the nil func.
NoSupplier == ""
newTLSSpecFunc(id) == id

\* A supplier that keeps the one template it built first and hands it out again.
tlsSpecFuncCall_Shared(fn, h) ==
    IF \E a \in 1..Len(h) : h[a].hello = fn
    THEN [addr |-> CHOOSE a \in 1..Len(h) : h[a].hello = fn, heap |-> h]
    ELSE [addr |-> Len(h) + 1, heap |-> Append(h, UTLSIdToSpec(fn).spec)]

\* A call of the supplier fn with the templates h allocated so far:
\* spec, _ := utls.UTLSIdToSpec(id); return &spec.  The value is copied into a
\* new allocation, whose address is returned.
tlsSpecFuncCall(fn, h) ==
    [addr |-> Len(h) + 1, heap |-> Append(h, UTLSIdToSpec(fn).spec)]

----------------------------------------------------------------------------
(* HTTP headers (fhttp's http.Header: canonical key -> list of values) *)

\* A header value is a Go string, kept as the sequence of the pieces it is
\* formatted from; "" is <<>>.  Str(s) is the string made of the one piece s.
Str(s) == <<s>>
EmptyString == <<>>

PHeaderOrderKey == "PHeader-Order:"
HeaderOrderKey == "Header-Order:"

\* textproto.CanonicalMIMEHeaderKey on the names the code and the callers use
CanonicalHeaderKey(k) ==
    CASE k = "user-agent" -> "User-Agent"
      [] k = "sec-ch-ua" -> "Sec-Ch-Ua"
      [] k = "sec-ch-ua-mobile" -> "Sec-Ch-Ua-Mobile"
      [] k = "sec-ch-ua-platform" -> "Sec-Ch-Ua-Platform"
      [] k = "accept" -> "Accept"
      [] OTHER -> k

EmptyHeader == [k \in {} |-> <<>>]

\* Header.Get: the first value under the canonical key, "" when there is none
HeaderGet(h, key) ==
    LET k == CanonicalHeaderKey(key)
    IN  IF k \in DOMAIN h /\ Len(h[k]) > 0 THEN h[k][1] ELSE EmptyString

\* Header.Set: replaces every value under the canonical key by the one given
HeaderSet(h, key, value) ==
    LET k == CanonicalHeaderKey(key)
    IN  [x \in DOMAIN h \cup {k} |-> IF x = k THEN <<value>> ELSE h[x]]

\* Header.Add: appends to the values under the canonical key
HeaderAdd(h, key, value) ==
    LET k == CanonicalHeaderKey(key)
    IN  [x \in DOMAIN h \cup {k} |->
            IF x = k THEN (IF k \in DOMAIN h THEN h[k] ELSE <<>>) \o <<value>>
            ELSE h[x]]

\* header[key] = values, the map assignment
HeaderPut(h, key, values) ==
    [x \in DOMAIN h \cup {key} |-> IF x = key THEN values ELSE h[x]]

----------------------------------------------------------------------------
(* HTTP/2 settings *)

SettingHeaderTableSize == "HEADER_TABLE_SIZE"
SettingEnablePush == "ENABLE_PUSH"
SettingMaxConcurrentStreams == "MAX_CONCURRENT_STREAMS"
SettingInitialWindowSize == "INITIAL_WINDOW_SIZE"
SettingMaxFrameSize == "MAX_FRAME_SIZE"
SettingMaxHeaderListSize == "MAX_HEADER_LIST_SIZE"
settingEnableConnectProtocol == "ENABLE_CONNECT_PROTOCOL"

Setting(id, val) == [ID |-> id, Val |-> val]

\* *http2.PriorityParam
PriorityParam(dep, excl, weight) == [StreamDep |-> dep, Exclusive |-> excl, Weight |-> weight]

----------------------------------------------------------------------------
(* Chromium *)

\* the switch with each case's bound taken inclusively
chromiumTLSHelloID_Inclusive(majorNum) ==
    CASE majorNum <= 102 -> "HelloChrome_100"
      [] majorNum > 102 /\ majorNum <= 106 -> "HelloChrome_102"
      [] majorNum > 106 /\ majorNum <= 112 -> "HelloChrome_106_Shuffle"
      [] majorNum > 112 /\ majorNum <= 114 -> "HelloChrome_112_PSK_Shuf"
      [] majorNum > 114 /\ majorNum <= 115 -> "HelloChrome_114_Padding_PSK_Shuf"
      [] majorNum > 115 /\ majorNum <= 120 -> "HelloChrome_115_PQ"
      [] majorNum > 120 /\ majorNum <= 131 -> "HelloChrome_120"
      [] majorNum > 131 /\ majorNum <= 133 -> "HelloChrome_131"
      [] OTHER -> "HelloChrome_133"

chromiumTLSHelloID(majorNum) ==
    CASE majorNum < 102 -> "HelloChrome_100"
      [] majorNum >= 102 /\ majorNum < 106 -> "HelloChrome_102"
      [] majorNum >= 106 /\ majorNum < 112 -> "HelloChrome_106_Shuffle"
      [] majorNum >= 112 /\ majorNum < 114 -> "HelloChrome_112_PSK_Shuf"
      [] majorNum >= 114 /\ majorNum < 115 -> "HelloChrome_114_Padding_PSK_Shuf"
      [] majorNum >= 115 /\ majorNum < 120 -> "HelloChrome_115_PQ"
      [] majorNum >= 120 /\ majorNum < 131 -> "HelloChrome_120"
      [] majorNum >= 131 /\ majorNum < 133 -> "HelloChrome_131"
      [] OTHER -> "HelloChrome_133"

\* the options without the first band's lower header-list limit
chromiumHTTP2Options_OneLimit(majorNum) ==
    [Settings |-> <<Setting(SettingHeaderTableSize, 65536),
                    Setting(SettingEnablePush, 0),
                    Setting(SettingInitialWindowSize, 6291456),
                    Setting(SettingMaxHeaderListSize, 262144)>>,
     PseudoHeaderOrder |-> <<Str(":method"), Str(":authority"), Str(":scheme"), Str(":path")>>,
     MaxHeaderListSize |-> 262144,
     InitialWindowSize |-> 6291456,
     HeaderTableSize |-> 65536,
     ConnectionFlow |-> 0,
     HeaderPriority |-> None]

chromiumHTTP2Options(majorNum) ==
    LET opts == [Settings |-> <<>>,
                 PseudoHeaderOrder |-> <<Str(":method"), Str(":authority"), Str(":scheme"), Str(":path")>>,
                 MaxHeaderListSize |-> 262144,
                 InitialWindowSize |-> 6291456,
                 HeaderTableSize |-> 65536,
                 ConnectionFlow |-> 0,
                 HeaderPriority |-> None]
    IN  IF majorNum < 107
        THEN [opts EXCEPT
                !.Settings = <<Setting(SettingHeaderTableSize, 65536),
                               Setting(SettingMaxConcurrentStreams, 1000),
                               Setting(SettingInitialWindowSize, 6291456),
                               Setting(SettingMaxHeaderListSize, 100000)>>,
                !.MaxHeaderListSize = 100000]
        ELSE IF majorNum < 120
        THEN [opts EXCEPT
                !.Settings = <<Setting(SettingHeaderTableSize, 65536),
                               Setting(SettingEnablePush, 0),
                               Setting(SettingMaxConcurrentStreams, 1000),
                               Setting(SettingInitialWindowSize, 6291456),
                               Setting(SettingMaxHeaderListSize, 262144)>>]
        ELSE [opts EXCEPT
                !.Settings = <<Setting(SettingHeaderTableSize, 65536),
                               Setting(SettingEnablePush, 0),
                               Setting(SettingInitialWindowSize, 6291456),
                               Setting(SettingMaxHeaderListSize, 262144)>>]

\* The sec-ch-ua value: the GREASE brand list for the brand and major version.
clientHintUA(brand, majorStr, majorNum) ==
    <<"sec-ch-ua for ", brand, " v=">> \o majorStr

\* the Chromium headers with the Edge token carrying the major version only
chromiumBuildHeaders_EdgMajor(brand, v, majorStr, majorNum, p) ==
    IF p \notin {PlatformWindows, PlatformMac, PlatformLinux}
    THEN [headers |-> EmptyHeader, err |-> Wrap("chromium on platform", NewError(ErrUnsupportedPlatform))]
    ELSE
    LET ua0 == <<"Mozilla/5.0 (", p, ") AppleWebKit/537.36 (KHTML, like Gecko) Chrome/">>
                 \o v \o <<" Safari/537.36">>
        ua == IF brand = BrandEdge THEN ua0 \o <<" Edg/">> \o majorStr ELSE ua0
        h1 == HeaderSet(EmptyHeader, "user-agent", ua)
        h2 == HeaderSet(h1, "sec-ch-ua", clientHintUA(brand, majorStr, majorNum))
        h3 == HeaderSet(h2, "sec-ch-ua-mobile", Str("?0"))
        h4 == HeaderSet(h3, "sec-ch-ua-platform", <<"\"", p, "\"">>)
    IN  [headers |-> h4, err |-> NoError]

\* The closure chromiumBuildHeaders(brand, version, majorStr, majorNum) returns,
\* applied to platform p.
chromiumBuildHeaders(brand, v, majorStr, majorNum, p) ==
    IF p \notin {PlatformWindows, PlatformMac, PlatformLinux}
    THEN [headers |-> EmptyHeader, err |-> Wrap("chromium on platform", NewError(ErrUnsupportedPlatform))]
    ELSE
    LET uaPlatform == CASE p = PlatformWindows -> "Windows NT 10.0; Win64; x64"
                        [] p = PlatformMac -> "Macintosh; Intel Mac OS X 10_15_7"
                        [] p = PlatformLinux -> "X11; Linux x86_64"
        hintPlatform == CASE p = PlatformWindows -> "Windows"
                          [] p = PlatformMac -> "macOS"
                          [] p = PlatformLinux -> "Linux"
        ua0 == <<"Mozilla/5.0 (", uaPlatform, ") AppleWebKit/537.36 (KHTML, like Gecko) Chrome/">>
                 \o v \o <<" Safari/537.36">>
        ua == IF brand = BrandEdge THEN ua0 \o <<" Edg/">> \o v ELSE ua0
        h1 == HeaderSet(EmptyHeader, "user-agent", ua)
        h2 == HeaderSet(h1, "sec-ch-ua", clientHintUA(brand, majorStr, majorNum))
        h3 == HeaderSet(h2, "sec-ch-ua-mobile", Str("?0"))
        h4 == HeaderSet(h3, "sec-ch-ua-platform", <<"\"", hintPlatform, "\"">>)
    IN  [headers |-> h4, err |-> NoError]

\* A *ClientSpec: the version, the HTTP/2 options, and what its two closures
\* captured (family tells which closures they are).
ClientSpec(family, brand, v, majorStr, majorNum, helloID, opts) ==
    [family |-> family, brand |-> brand, version |-> v, majorStr |-> majorStr,
     majorNum |-> majorNum, helloID |-> helloID, http2Options |-> opts]

Chromium(brand, v) ==
    LET p == parseMajorVersion(v)
    IN  IF p.err # NoError THEN [spec |-> None, err |-> p.err]
        ELSE IF p.majorNum < 100
        THEN [spec |-> None, err |-> Wrap("chromium", NewError(ErrUnsupportedVersion))]
        ELSE LET helloID == chromiumTLSHelloID(p.majorNum)
                 verr == validateTLSHelloID(helloID)
             IN  IF verr # NoError THEN [spec |-> None, err |-> Wrap("chromium", verr)]
                 ELSE [spec |-> Some(ClientSpec("chromium", brand, v, p.majorStr, p.majorNum,
                                                helloID, chromiumHTTP2Options(p.majorNum))),
                       err |-> NoError]

----------------------------------------------------------------------------
(* Safari *)

\* the switch with iPadOS taken with iOS
safariTLSSpecFn_IPadAsIOS(p) ==
    CASE p \in {PlatformIOS, PlatformIPadOS} -> [fn |-> newTLSSpecFunc("HelloIOS_14"), err |-> NoError]
      [] p = PlatformMac -> [fn |-> newTLSSpecFunc("HelloSafari_16_0"), err |-> NoError]
      [] OTHER -> [fn |-> NoSupplier, err |-> Wrap("safari on platform", NewError(ErrUnsupportedPlatform))]

safariTLSSpecFn(p) ==
    CASE p = PlatformIOS -> [fn |-> newTLSSpecFunc("HelloIOS_14"), err |-> NoError]
      [] p \in {PlatformMac, PlatformIPadOS} -> [fn |-> newTLSSpecFunc("HelloSafari_16_0"), err |-> NoError]
      [] OTHER -> [fn |-> NoSupplier, err |-> Wrap("safari on platform", NewError(ErrUnsupportedPlatform))]

\* the Safari options with the InitialWindowSize field left at zero
safariHTTP2Options_WindowUnset ==
    [Settings |-> <<Setting(SettingHeaderTableSize, 4096),
                    Setting(SettingEnablePush, 0),
                    Setting(SettingMaxConcurrentStreams, 100),
                    Setting(SettingInitialWindowSize, 2097152),
                    Setting(SettingMaxFrameSize, 16384),
                    Setting(settingEnableConnectProtocol, 1)>>,
     PseudoHeaderOrder |-> <<Str(":method"), Str(":scheme"), Str(":path"), Str(":authority")>>,
     MaxHeaderListSize |-> 0,
     InitialWindowSize |-> 0,
     HeaderTableSize |-> 4096,
     ConnectionFlow |-> 10485760,
     HeaderPriority |-> None]

safariHTTP2Options ==
    [Settings |-> <<Setting(SettingHeaderTableSize, 4096),
                    Setting(SettingEnablePush, 0),
                    Setting(SettingMaxConcurrentStreams, 100),
                    Setting(SettingInitialWindowSize, 2097152),
                    Setting(SettingMaxFrameSize, 16384),
                    Setting(settingEnableConnectProtocol, 1)>>,
     PseudoHeaderOrder |-> <<Str(":method"), Str(":scheme"), Str(":path"), Str(":authority")>>,
     MaxHeaderListSize |-> 0,
     InitialWindowSize |-> 2097152,
     HeaderTableSize |-> 4096,
     ConnectionFlow |-> 10485760,
     HeaderPriority |-> None]

\* strings.ReplaceAll(version, ".", "_")
ReplaceDots(v) == [i \in 1..Len(v) |-> IF v[i] = "." THEN "_" ELSE v[i]]

safariBuildHeaders(v, p) ==
    IF p \notin {PlatformMac, PlatformIOS, PlatformIPadOS}
    THEN [headers |-> EmptyHeader, err |-> Wrap("safari on platform", NewError(ErrUnsupportedPlatform))]
    ELSE
    LET iosVer == ReplaceDots(v)
        ua == CASE p = PlatformMac ->
                     <<"Mozilla/5.0 (Macintosh; Intel Mac OS X 10_15_7) AppleWebKit/605.1.15 (KHTML, like Gecko) Version/">>
                       \o v \o <<" Safari/605.1.15">>
                [] p = PlatformIOS ->
                     <<"Mozilla/5.0 (iPhone; CPU iPhone OS ">> \o iosVer
                       \o <<" like Mac OS X) AppleWebKit/605.1.15 (KHTML, like Gecko) Version/">>
                       \o v \o <<" Mobile/15E148 Safari/604.1">>
                [] p = PlatformIPadOS ->
                     <<"Mozilla/5.0 (iPad; CPU OS ">> \o iosVer
                       \o <<" like Mac OS X) AppleWebKit/605.1.15 (KHTML, like Gecko) Version/">>
                       \o v \o <<" Mobile/15E148 Safari/604.1">>
    IN  [headers |-> HeaderSet(EmptyHeader, "user-agent", ua), err |-> NoError]

\* only the first of the two hello ids validated
SafariValidate_FirstOnly == validateTLSHelloID("HelloSafari_16_0")

\* validateTLSHelloID over []utls.ClientHelloID{HelloSafari_16_0, HelloIOS_14}:
\* the first error, or nil
SafariValidate ==
    LET e1 == validateTLSHelloID("HelloSafari_16_0")
        e2 == validateTLSHelloID("HelloIOS_14")
    IN  IF e1 # NoError THEN e1 ELSE e2

\* Safari with the minimum compared by <= : version 16 itself is refused.
Safari_MinOffByOne(v) ==
    LET p == parseMajorVersion(v)
    IN  IF p.err # NoError THEN [spec |-> None, err |-> p.err]
        ELSE IF p.majorNum <= 16
        THEN [spec |-> None, err |-> Wrap("safari", NewError(ErrUnsupportedVersion))]
        ELSE [spec |-> Some(ClientSpec("safari", "", v, <<>>, 0, NoSupplier, safariHTTP2Options)),
              err |-> NoError]

Safari(v) ==
    LET p == parseMajorVersion(v)
    IN  IF p.err # NoError THEN [spec |-> None, err |-> p.err]
        ELSE IF p.majorNum < 16
        THEN [spec |-> None, err |-> Wrap("safari", NewError(ErrUnsupportedVersion))]
        ELSE IF SafariValidate # NoError
        THEN [spec |-> None, err |-> Wrap("safari", SafariValidate)]
        ELSE [spec |-> Some(ClientSpec("safari", "", v, <<>>, 0, NoSupplier, safariHTTP2Options)),
              err |-> NoError]

----------------------------------------------------------------------------
(* Firefox *)

\* the switch with the case for profile 99 left out
firefoxTLSHelloID_Skip99(majorNum) ==
    CASE majorNum < 56 -> "HelloFirefox_55"
      [] majorNum >= 56 /\ majorNum < 63 -> "HelloFirefox_56"
      [] majorNum >= 63 /\ majorNum < 65 -> "HelloFirefox_63"
      [] majorNum >= 65 /\ majorNum < 102 -> "HelloFirefox_65"
      [] majorNum >= 102 /\ majorNum < 105 -> "HelloFirefox_102"
      [] majorNum >= 105 /\ majorNum < 120 -> "HelloFirefox_105"
      [] OTHER -> "HelloFirefox_120"

firefoxTLSHelloID(majorNum) ==
    CASE majorNum < 56 -> "HelloFirefox_55"
      [] majorNum >= 56 /\ majorNum < 63 -> "HelloFirefox_56"
      [] majorNum >= 63 /\ majorNum < 65 -> "HelloFirefox_63"
      [] majorNum >= 65 /\ majorNum < 99 -> "HelloFirefox_65"
      [] majorNum >= 99 /\ majorNum < 102 -> "HelloFirefox_99"
      [] majorNum >= 102 /\ majorNum < 105 -> "HelloFirefox_102"
      [] majorNum >= 105 /\ majorNum < 120 -> "HelloFirefox_105"
      [] OTHER -> "HelloFirefox_120"

firefoxHTTP2Options ==
    [Settings |-> <<Setting(SettingHeaderTableSize, 65536),
                    Setting(SettingInitialWindowSize, 131072),
                    Setting(SettingMaxFrameSize, 16384)>>,
     PseudoHeaderOrder |-> <<Str(":method"), Str(":path"), Str(":authority"), Str(":scheme")>>,
     MaxHeaderListSize |-> 0,
     InitialWindowSize |-> 131072,
     HeaderTableSize |-> 65536,
     ConnectionFlow |-> 12517377,
     HeaderPriority |-> Some(PriorityParam(13, FALSE, 41))]

\* the Firefox headers with a client hint added
firefoxBuildHeaders_WithHint(v, p) ==
    IF p \notin {PlatformWindows, PlatformMac, PlatformLinux}
    THEN [headers |-> EmptyHeader, err |-> Wrap("firefox on platform", NewError(ErrUnsupportedPlatform))]
    ELSE [headers |-> HeaderSet(HeaderSet(EmptyHeader, "user-agent", <<"Mozilla/5.0 Firefox/">> \o v),
                                "sec-ch-ua-mobile", Str("?0")),
          err |-> NoError]

firefoxBuildHeaders(v, p) ==
    IF p \notin {PlatformWindows, PlatformMac, PlatformLinux}
    THEN [headers |-> EmptyHeader, err |-> Wrap("firefox on platform", NewError(ErrUnsupportedPlatform))]
    ELSE
    LET uaPlatform == CASE p = PlatformWindows -> "Windows NT 10.0; Win64; x64"
                        [] p = PlatformMac -> "Macintosh; Intel Mac OS X 10.15"
                        [] p = PlatformLinux -> "X11; Linux x86_64"
        ua == <<"Mozilla/5.0 (", uaPlatform, "; rv:">> \o v \o <<") Gecko/20100101 Firefox/">> \o v
    IN  [headers |-> HeaderSet(EmptyHeader, "user-agent", ua), err |-> NoError]

Firefox(v) ==
    LET p == parseMajorVersion(v)
    IN  IF p.err # NoError THEN [spec |-> None, err |-> p.err]
        ELSE IF p.majorNum < 55
        THEN [spec |-> None, err |-> Wrap("firefox", NewError(ErrUnsupportedVersion))]
        ELSE LET helloID == firefoxTLSHelloID(p.majorNum)
                 verr == validateTLSHelloID(helloID)
             IN  IF verr # NoError THEN [spec |-> None, err |-> Wrap("firefox", verr)]
                 ELSE [spec |-> Some(ClientSpec("firefox", "", v, <<>>, 0, helloID, firefoxHTTP2Options)),
                       err |-> NoError]

----------------------------------------------------------------------------
(* ClientSpec: the accessors, the closures and ConfigureTransport *)

\* an accessor that returns the major version only
Version_MajorOnly(c) == MajorPrefix(c.version)

\* c.Version()
Version(c) == c.version

\* c.HTTP2Opts(): the pointer c.http2Options, read as the options it points to
HTTP2Opts(c) == c.http2Options

\* c.PseudoHeaderOrder(): the slice c.http2Options.PseudoHeaderOrder, read as
\* the elements its backing array holds
PseudoHeaderOrder(c) == c.http2Options.PseudoHeaderOrder

\* c.tlsSpecFn(platform): Chromium's and Firefox's closures ignore the platform
tlsSpecFn(c, platform) ==
    IF c.family = "safari" THEN safariTLSSpecFn(platform)
    ELSE [fn |-> newTLSSpecFunc(c.helloID), err |-> NoError]

\* c.buildHeaders(platform)
buildHeaders(c, platform) ==
    CASE c.family = "chromium" ->
             chromiumBuildHeaders(c.brand, c.version, c.majorStr, c.majorNum, platform)
      [] c.family = "safari" -> safariBuildHeaders(c.version, platform)
      [] c.family = "firefox" -> firefoxBuildHeaders(c.version, platform)

\* the *http2.Transport that http2.ConfigureTransports makes
NewHTTP2Transport ==
    [Settings |-> <<>>, MaxHeaderListSize |-> 0, InitialWindowSize |-> 0,
     HeaderTableSize |-> 0, TransportConnFlow |-> 0, HeaderPriority |-> None]

\* http2.ConfigureTransports(t): registers HTTP/2 on t and returns the new
\* http2 transport; an error, and t as it was, if t is HTTP/2-enabled already.
ConfigureTransports(t) ==
    IF t.h2 # None THEN [t |-> t, err |-> NewError(ErrHTTP2Registered)]
    ELSE [t |-> [t EXCEPT !.h2 = Some(NewHTTP2Transport)], err |-> NoError]

\* ConfigureTransport forcing a connection flow-control value and a header
\* priority when the profile has none
ConfigureTransport_Forced(c, t, platform) ==
    LET s == tlsSpecFn(c, platform)
    IN  IF s.err # NoError THEN [t |-> t, err |-> s.err]
        ELSE
        LET t1 == [t EXCEPT !.GetTlsClientHelloSpec = s.fn]
            r == ConfigureTransports(t1)
        IN  IF r.err # NoError
            THEN [t |-> r.t, err |-> Wrap("enabling http2 support", r.err)]
            ELSE
            LET o == c.http2Options
                a == [r.t.h2[1] EXCEPT !.Settings = o.Settings,
                                       !.MaxHeaderListSize = o.MaxHeaderListSize,
                                       !.InitialWindowSize = o.InitialWindowSize,
                                       !.HeaderTableSize = o.HeaderTableSize,
                                       !.TransportConnFlow =
                                           IF o.ConnectionFlow > 0 THEN o.ConnectionFlow
                                           ELSE 15663105,
                                       !.HeaderPriority =
                                           IF o.HeaderPriority # None THEN o.HeaderPriority
                                           ELSE Some(PriorityParam(0, TRUE, 255))]
            IN  [t |-> [r.t EXCEPT !.h2 = Some(a)], err |-> NoError]

\* ConfigureTransport putting the transport's former supplier back when
\* enabling HTTP/2 fails
ConfigureTransport_Rollback(c, t, platform) ==
    LET s == tlsSpecFn(c, platform)
    IN  IF s.err # NoError THEN [t |-> t, err |-> s.err]
        ELSE
        LET t1 == [t EXCEPT !.GetTlsClientHelloSpec = s.fn]
            r == ConfigureTransports(t1)
        IN  IF r.err # NoError
            THEN [t |-> t, err |-> Wrap("enabling http2 support", r.err)]
            ELSE
            LET o == c.http2Options
                a == [r.t.h2[1] EXCEPT !.Settings = o.Settings,
                                       !.MaxHeaderListSize = o.MaxHeaderListSize,
                                       !.InitialWindowSize = o.InitialWindowSize,
                                       !.HeaderTableSize = o.HeaderTableSize]
                b == IF o.ConnectionFlow > 0
                     THEN [a EXCEPT !.TransportConnFlow = o.ConnectionFlow] ELSE a
                d == IF o.HeaderPriority # None
                     THEN [b EXCEPT !.HeaderPriority = o.HeaderPriority] ELSE b
            IN  [t |-> [r.t EXCEPT !.h2 = Some(d)], err |-> NoError]

\* c.ConfigureTransport(t, platform): the transport as the call leaves it, and
\* the error returned
ConfigureTransport(c, t, platform) ==
    LET s == tlsSpecFn(c, platform)
    IN  IF s.err # NoError THEN [t |-> t, err |-> s.err]
        ELSE
        LET t1 == [t EXCEPT !.GetTlsClientHelloSpec = s.fn]
            r == ConfigureTransports(t1)
        IN  IF r.err # NoError
            THEN [t |-> r.t, err |-> Wrap("enabling http2 support", r.err)]
            ELSE
            LET o == c.http2Options
                a == [r.t.h2[1] EXCEPT !.Settings = o.Settings,
                                       !.MaxHeaderListSize = o.MaxHeaderListSize,
                                       !.InitialWindowSize = o.InitialWindowSize,
                                       !.HeaderTableSize = o.HeaderTableSize]
                b == IF o.ConnectionFlow > 0
                     THEN [a EXCEPT !.TransportConnFlow = o.ConnectionFlow] ELSE a
                d == IF o.HeaderPriority # None
                     THEN [b EXCEPT !.HeaderPriority = o.HeaderPriority] ELSE b
            IN  [t |-> [r.t EXCEPT !.h2 = Some(d)], err |-> NoError]

----------------------------------------------------------------------------
(* NewTransport *)

defaultTransport == [GetTlsClientHelloSpec |-> NoSupplier, h2 |-> None]

\* The slice spec.http2Options.PseudoHeaderOrder as a Go slice value: a pointer
\* to the ClientSpec's backing array.  Copies of it (the Transport's field, the
\* annotation RoundTrip puts on a request) share that array; SliceElems reads
\* the elements a slice has now.
SliceOfSpecOrder == <<Str("&spec.http2Options.PseudoHeaderOrder[0]")>>
SliceElems(s) ==
    IF s = SliceOfSpecOrder /\ spec # None THEN spec[1].http2Options.PseudoHeaderOrder ELSE s

\* NewTransport(spec, platform, opts...) with cfg.baseTransport = base (the
\* caller's, or defaultTransport()): the *Transport returned, the base
\* transport as the call leaves it, and the error
NewTransport(c, platform, base, baseName) ==
    LET r == ConfigureTransport(c, base, platform)
        h == buildHeaders(c, platform)
    IN  IF r.err # NoError
        THEN [tr |-> None, base |-> r.t, err |-> Wrap("configuring transport", r.err)]
        ELSE IF h.err # NoError THEN [tr |-> None, base |-> r.t, err |-> h.err]
        ELSE [tr |-> Some([transport |-> baseName,
                           pseudoHeaderOrder |-> SliceOfSpecOrder,
                           defaultHeaders |-> h.headers]),
              base |-> r.t, err |-> NoError]

----------------------------------------------------------------------------
(* Transport.RoundTrip, statement by statement, on the request's header h  *)

\* header[http.PHeaderOrderKey] = t.pseudoHeaderOrder, only when the request
\* carries no annotation of its own
rtSetPseudo_IfAbsent(t, h) ==
    IF PHeaderOrderKey \in DOMAIN h THEN h
    ELSE HeaderPut(h, PHeaderOrderKey, t.pseudoHeaderOrder)

\* header[http.PHeaderOrderKey] = t.pseudoHeaderOrder
rtSetPseudo(t, h) == HeaderPut(h, PHeaderOrderKey, t.pseudoHeaderOrder)

\* One iteration of the loop over t.defaultHeaders, for the entry key:
\*   if existing := header.Get(key); existing != "" { continue }
\*   if len(values) > 0 { header.Set(key, values[0]) }
rtDefault(t, h, key) ==
    IF HeaderGet(h, key) # EmptyString THEN h
    ELSE IF Len(t.defaultHeaders[key]) > 0 THEN HeaderSet(h, key, t.defaultHeaders[key][1])
    ELSE h

\* the whole loop, the map's entries taken in the order keys
RECURSIVE rtDefaults(_, _, _)
rtDefaults(t, h, keys) ==
    IF keys = <<>> THEN h ELSE rtDefaults(t, rtDefault(t, h, Head(keys)), Tail(keys))

\* the header order written whether or not the request carries one
rtOrder_Always(h, keys) ==
    HeaderPut(h, HeaderOrderKey, [i \in 1..Len(keys) |-> Str(keys[i])])

\* if header[http.HeaderOrderKey] == nil { keys := every key of header,
\* shuffled; header[http.HeaderOrderKey] = keys }: keys is the shuffled list
rtOrder(h, keys) ==
    IF HeaderOrderKey \in DOMAIN h THEN h
    ELSE HeaderPut(h, HeaderOrderKey, [i \in 1..Len(keys) |-> Str(keys[i])])

\* every order a set's elements can be listed in: what ranging over a map and
\* rand.Shuffle can produce
RECURSIVE Perms(_)
Perms(S) ==
    IF S = {} THEN {<<>>}
    ELSE UNION {{<<x>> \o p : p \in Perms(S \ {x})} : x \in S}

----------------------------------------------------------------------------
(* The state the operations of the transport leave alone while the         *)
(* constructors are exercised, and the other way round.                    *)

NotCalled == [fn |-> "none", brand |-> "", spec |-> None, err |-> NoError]
NoLast == [op |-> "none", platform |-> "", base |-> "", before |-> None,
           heapBefore |-> <<>>, err |-> NoError, addr |-> 0,
           req |-> 0, headerBefore |-> EmptyHeader, handed |-> EmptyHeader,
           result |-> None, baseCalls |-> <<>>, baseOut |-> None, via |-> ""]
\* a zero http.Transport: no TLS hello supplier, HTTP/2 not registered
FreshTransport == [GetTlsClientHelloSpec |-> NoSupplier, h2 |-> None]
EmptyHeap == <<>>

----------------------------------------------------------------------------
(* SpecVersion: the three constructors applied to version strings *)

\* the characters a major-version prefix is made of
PrefixChars == {"0", "1", "4", "5", "6", "9", "+", "-", "a", " "}
\* what follows the prefix
Suffixes == {<<>>, <<".">>, <<".", "3">>, <<".", "0", ".", "1">>}

SeqsUpTo(S, n) == UNION {[1..k -> S] : k \in 0..n}

VersionStrings == {p \o s : p \in SeqsUpTo(PrefixChars, MaxMajorLen), s \in Suffixes}

InitVersion ==
    /\ utls = AllHelloIDs
    /\ version \in VersionStrings
    /\ ctorRes = NotCalled
    /\ spec = None
    /\ bt = FreshTransport
    /\ dt = FreshTransport
    /\ tr = None
    /\ last = NoLast
    /\ heap = EmptyHeap
    /\ reqs = <<>>
    /\ calls = <<>>

CallChromium(brand) ==
    /\ ctorRes' = [fn |-> "Chromium", brand |-> brand,
                   spec |-> Chromium(brand, version).spec, err |-> Chromium(brand, version).err]
    /\ UNCHANGED <<utls, version, spec, bt, dt, tr, last, heap, reqs, calls>>

CallSafari ==
    /\ ctorRes' = [fn |-> "Safari", brand |-> "",
                   spec |-> Safari(version).spec, err |-> Safari(version).err]
    /\ UNCHANGED <<utls, version, spec, bt, dt, tr, last, heap, reqs, calls>>

CallFirefox ==
    /\ ctorRes' = [fn |-> "Firefox", brand |-> "",
                   spec |-> Firefox(version).spec, err |-> Firefox(version).err]
    /\ UNCHANGED <<utls, version, spec, bt, dt, tr, last, heap, reqs, calls>>

NextVersion ==
    \/ \E brand \in Brands : CallChromium(brand)
    \/ CallSafari
    \/ CallFirefox

SpecVersion == InitVersion /\ [][NextVersion]_vars

----------------------------------------------------------------------------
(* Spec: one ClientSpec, a caller-held base transport, ConfigureTransport,  *)
(* NewTransport, and the connections' calls of the TLS hello supplier      *)

V137 == <<"1", "3", "7", ".", "0", ".", "0", ".", "0">>
V100 == <<"1", "0", "0">>
V18 == <<"1", "8", ".", "3">>
V16 == <<"1", "6">>
V134 == <<"1", "3", "4", ".", "0">>

\* the ClientSpecs the transport operations are exercised with
SpecChoices ==
    {Chromium(BrandChrome, V137).spec, Chromium(BrandEdge, V100).spec,
     Safari(V18).spec, Safari(V16).spec, Firefox(V134).spec}

TheSpec == spec[1]

Init ==
    /\ utls = AllHelloIDs
    /\ version = <<>>
    /\ ctorRes = NotCalled
    /\ spec \in SpecChoices
    /\ bt = FreshTransport
    /\ dt = FreshTransport
    /\ tr = None
    /\ last = NoLast
    /\ heap = EmptyHeap
    /\ reqs = <<>>
    /\ calls = <<>>

\* spec.ConfigureTransport(bt, platform) on the caller's transport
DoConfigureTransport(platform) ==
    LET r == ConfigureTransport(TheSpec, bt, platform)
    IN  /\ bt' = r.t
        /\ last' = [NoLast EXCEPT !.op = "ConfigureTransport", !.platform = platform,
                                  !.base = "bt", !.before = Some(bt), !.err = r.err]
        /\ UNCHANGED <<utls, version, ctorRes, spec, dt, tr, heap, reqs, calls>>

\* NewTransport(spec, platform): the base transport is defaultTransport()
DoNewTransport(platform) ==
    LET r == NewTransport(TheSpec, platform, defaultTransport, "dt")
    IN  /\ dt' = r.base
        /\ tr' = r.tr
        /\ last' = [NoLast EXCEPT !.op = "NewTransport", !.platform = platform,
                                  !.base = "dt", !.before = Some(defaultTransport), !.err = r.err]
        /\ UNCHANGED <<utls, version, ctorRes, spec, bt, heap, reqs, calls>>

\* NewTransport(spec, platform, WithBaseTransport(bt))
DoNewTransportWithBase(platform) ==
    LET r == NewTransport(TheSpec, platform, bt, "bt")
    IN  /\ bt' = r.base
        /\ tr' = r.tr
        /\ last' = [NoLast EXCEPT !.op = "NewTransport", !.platform = platform,
                                  !.base = "bt", !.before = Some(bt), !.err = r.err]
        /\ UNCHANGED <<utls, version, ctorRes, spec, dt, heap, reqs, calls>>

BaseTransport(name) == IF name = "bt" THEN bt ELSE dt

\* a connection attempt on base transport `name` calls t.GetTlsClientHelloSpec()
GetTlsClientHelloSpec(name) ==
    /\ BaseTransport(name).GetTlsClientHelloSpec # NoSupplier
    /\ Len(heap) < MaxTemplates
    /\ LET r == tlsSpecFuncCall(BaseTransport(name).GetTlsClientHelloSpec, heap)
       IN  /\ heap' = r.heap
           /\ last' = [NoLast EXCEPT !.op = "GetTlsClientHelloSpec", !.base = name,
                                     !.heapBefore = heap, !.addr = r.addr]
    /\ UNCHANGED <<utls, version, ctorRes, spec, bt, dt, tr, reqs, calls>>

\* the handshake of one connection attempt applies, and so mutates, the
\* template at address a
Handshake(a) ==
    /\ a \in 1..Len(heap)
    /\ ~heap[a].applied
    /\ heap' = [heap EXCEPT ![a].applied = TRUE]
    /\ last' = [NoLast EXCEPT !.op = "Handshake", !.heapBefore = heap, !.addr = a]
    /\ UNCHANGED <<utls, version, ctorRes, spec, bt, dt, tr, reqs, calls>>

Next ==
    \/ \E p \in Platforms : DoConfigureTransport(p)
    \/ \E p \in Platforms : DoNewTransport(p)
    \/ \E p \in Platforms : DoNewTransportWithBase(p)
    \/ \E n \in {"bt", "dt"} : GetTlsClientHelloSpec(n)
    \/ \E a \in 1..MaxTemplates : Handshake(a)

Spec == Init /\ [][Next]_vars

\* the platforms each family supports
Supported(family) ==
    CASE family = "chromium" -> {PlatformWindows, PlatformMac, PlatformLinux}
      [] family = "safari" -> {PlatformMac, PlatformIOS, PlatformIPadOS}
      [] family = "firefox" -> {PlatformWindows, PlatformMac, PlatformLinux}

\* C4 as claimed: ConfigureTransport with a platform outside the family's set
\* returns ErrUnsupportedPlatform and leaves the base transport's TLS hello
\* supplier and HTTP/2 fields as they were.
C4_UnsupportedPlatformLeavesTransport ==
    (last.op = "ConfigureTransport" /\ last.platform \notin Supported(TheSpec.family)) =>
        /\ ErrorsIs(last.err, ErrUnsupportedPlatform)
        /\ bt = last.before[1]

\* C5 as claimed: NewTransport returns a Transport exactly when the platform is
\* in the family's set; otherwise no Transport and ErrUnsupportedPlatform.
C5_TransportIffSupported ==
    (last.op = "NewTransport") =>
        /\ (tr # None) <=> (last.platform \in Supported(TheSpec.family))
        /\ (last.platform \notin Supported(TheSpec.family)) =>
               (tr = None /\ ErrorsIs(last.err, ErrUnsupportedPlatform))

\* C10: every call of the installed TLS hello supplier returns a newly
\* allocated template equal in content to the profile's template, and leaves
\* every template returned before as it was; a handshake's mutation of one
\* template changes no other template, whenever it happens between the calls.
C10_FreshTemplates ==
    /\ (last.op = "GetTlsClientHelloSpec") =>
           /\ last.addr \notin 1..Len(last.heapBefore)
           /\ last.addr \in 1..Len(heap)
           /\ heap[last.addr] =
                  UTLSIdToSpec(BaseTransport(last.base).GetTlsClientHelloSpec).spec
           /\ \A a \in 1..Len(last.heapBefore) : heap[a] = last.heapBefore[a]
    /\ (last.op = "Handshake") =>
           /\ Len(heap) = Len(last.heapBefore)
           /\ \A a \in 1..Len(heap) : a # last.addr => heap[a] = last.heapBefore[a]

\* C10's case: a supplier call after a handshake has mutated an earlier
\* template of the same profile
C10_Witness ==
    /\ last.op = "GetTlsClientHelloSpec"
    /\ last.addr = 2
    /\ heap[1].applied
    /\ heap[1].hello = heap[2].hello
    /\ ~heap[2].applied

----------------------------------------------------------------------------
(* What the claims about version strings speak of, stated without the      *)
(* parser: the shape of the leading component and the number it denotes.   *)

LeadingComponent(v) ==
    IF \E i \in 1..Len(v) : v[i] = "."
    THEN SubSeq(v, 1, (CHOOSE i \in 1..Len(v) : v[i] = "." /\ \A j \in 1..(i - 1) : v[j] # ".") - 1)
    ELSE v

AllDigits(s) == Len(s) > 0 /\ \A i \in 1..Len(s) : s[i] \in Digits

RECURSIVE Pow10(_)
Pow10(k) == IF k = 0 THEN 1 ELSE 10 * Pow10(k - 1)

RECURSIVE SumDigits(_, _)
SumDigits(s, i) ==
    IF i > Len(s) THEN 0 ELSE DigitVal(s[i]) * Pow10(Len(s) - i) + SumDigits(s, i + 1)

\* the number an all-digit string denotes
DecimalValue(s) == SumDigits(s, 1)

HasSign(s) == Len(s) > 0 /\ s[1] \in {"+", "-"}
\* an optional sign and then digits: what denotes an integer
IsInteger(s) == AllDigits(s) \/ (HasSign(s) /\ AllDigits(Tail(s)))
IntegerValue(s) ==
    IF HasSign(s)
    THEN (IF s[1] = "-" THEN 0 - DecimalValue(Tail(s)) ELSE DecimalValue(Tail(s)))
    ELSE DecimalValue(s)

FamilyMinimum(fn) ==
    CASE fn = "Chromium" -> 100 [] fn = "Safari" -> 16 [] fn = "Firefox" -> 55

Called == ctorRes.fn # "none"
IsParseError(err) == err.is = ErrSyntax /\ err.msg = <<"parsing major version">>

\* C6: with a major version m that parses, a constructor returns a spec iff m
\* is at least the family minimum (100, 16, 55); below it, it returns no spec
\* and an error that is ErrUnsupportedVersion.
C6_MinimumVersion ==
    (Called /\ IsInteger(LeadingComponent(version))) =>
        LET m == IntegerValue(LeadingComponent(version))
        IN  /\ (ctorRes.spec # None) <=> (m >= FamilyMinimum(ctorRes.fn))
            /\ (ctorRes.spec # None) => ctorRes.err = NoError
            /\ (m < FamilyMinimum(ctorRes.fn)) =>
                   (ctorRes.spec = None /\ ErrorsIs(ctorRes.err, ErrUnsupportedVersion))

\* C6's case: Firefox at exactly its minimum, 55, succeeds
C6_Witness ==
    /\ ctorRes.fn = "Firefox"
    /\ LeadingComponent(version) = <<"5", "5">>
    /\ ctorRes.spec # None

\* C7: a version whose leading component is not numeric (empty, letters,
\* whitespace, digits mixed with other characters) gets a parse error and no
\* spec from every constructor, and the error is not ErrUnsupportedVersion.
C7_NonNumericRejected ==
    (Called /\ ~IsInteger(LeadingComponent(version))) =>
        /\ ctorRes.spec = None
        /\ IsParseError(ctorRes.err)
        /\ ~ErrorsIs(ctorRes.err, ErrUnsupportedVersion)

\* C7's case: digits followed by a letter, handed to Chromium
C7_Witness ==
    /\ ctorRes.fn = "Chromium"
    /\ LeadingComponent(version) = <<"1", "0", "a">>
    /\ ctorRes.spec = None
    /\ IsParseError(ctorRes.err)

----------------------------------------------------------------------------
(* SpecRoundTrip: one Transport made by NewTransport, one request at a     *)
(* time, Transport.RoundTrip called on it any number of times              *)

\* the headers callers put on a request before handing it to RoundTrip
H_none == EmptyHeader
H_ua == HeaderAdd(EmptyHeader, "user-agent", Str("caller-ua"))
H_uaEmpty == HeaderSet(EmptyHeader, "user-agent", EmptyString)
H_uaEmptyThen == HeaderAdd(H_uaEmpty, "user-agent", Str("caller-ua"))
H_uaTwo == HeaderAdd(H_ua, "user-agent", Str("caller-ua-2"))
H_accept == HeaderAdd(EmptyHeader, "accept", Str("text/html"))
H_mobile == HeaderSet(EmptyHeader, "sec-ch-ua-mobile", Str("?1"))
H_pho ==
    HeaderPut(H_ua, PHeaderOrderKey,
              <<Str(":path"), Str(":method"), Str(":scheme"), Str(":authority")>>)
H_order == HeaderPut(H_accept, HeaderOrderKey, <<Str("accept"), Str("user-agent")>>)
\* an explicit list that is empty: []string{}, which is not nil
H_orderEmpty == HeaderPut(H_ua, HeaderOrderKey, <<>>)

CallerHeaders ==
    {H_none, H_ua, H_uaEmpty, H_uaEmptyThen, H_uaTwo, H_accept, H_mobile, H_pho, H_order,
     H_orderEmpty}

\* a *http.Request: its Header map, and (for the properties only) the header
\* as the caller made it
NewRequest(h) == [Header |-> h, made |-> h]

\* what the base executor's RoundTrip can return
BaseOutcomes == {[resp |-> Some("response"), err |-> NoError],
                 [resp |-> None, err |-> NewError("base transport error")]}

\* return t.transport.RoundTrip(req), retried once when the base executor
\* fails
rtDelegate_Retry(h, out) ==
    [baseCalls |-> IF out.err # NoError THEN <<h, h>> ELSE <<h>>, result |-> out]

\* return t.transport.RoundTrip(req): the request headers the base executor is
\* called with, one per call, and what RoundTrip returns when the base
\* executor returns out
rtDelegate(h, out) == [baseCalls |-> <<h>>, result |-> out]

\* the header Transport.RoundTrip leaves on the request: dkeys is the order the
\* range over t.defaultHeaders takes, okeys the shuffled list of header keys
RoundTripHeader(t, h, dkeys, okeys) ==
    rtOrder(rtDefaults(t, rtSetPseudo(t, h), dkeys), okeys)

\* the lists rand.Shuffle can leave in keys, for the header h the loop left;
\* nothing is shuffled when the request carries a header order
ShuffledKeys(h) == IF HeaderOrderKey \in DOMAIN h THEN {<<>>} ELSE Perms(DOMAIN h)

InitRoundTrip ==
    /\ utls = AllHelloIDs
    /\ version = <<>>
    /\ ctorRes = NotCalled
    /\ spec \in SpecChoices
    /\ \E p \in Supported(spec[1].family) :
           /\ tr = NewTransport(spec[1], p, defaultTransport, "dt").tr
           /\ dt = NewTransport(spec[1], p, defaultTransport, "dt").base
    /\ bt = FreshTransport
    /\ last = NoLast
    /\ heap = EmptyHeap
    /\ reqs \in {<<NewRequest(h)>> : h \in CallerHeaders}
    /\ calls = <<>>

\* the caller makes the next request
MakeRequest(h) ==
    /\ reqs' = <<NewRequest(h)>>
    /\ last' = NoLast
    /\ UNCHANGED <<utls, version, ctorRes, spec, bt, dt, tr, heap, calls>>

\* tr.RoundTrip(reqs[i]), from its first statement to the return of the base
\* executor's result
RoundTrip(i) ==
    LET t == tr[1]
        h == reqs[i].Header
    IN  \E dkeys \in Perms(DOMAIN t.defaultHeaders) :
        \E okeys \in ShuffledKeys(rtDefaults(t, rtSetPseudo(t, h), dkeys)) :
        \E out \in BaseOutcomes :
            /\ reqs' = [reqs EXCEPT ![i].Header = RoundTripHeader(t, h, dkeys, okeys)]
            /\ last' = [NoLast EXCEPT !.op = "RoundTrip", !.req = i,
                                      !.headerBefore = h,
                                      !.handed = RoundTripHeader(t, h, dkeys, okeys),
                                      !.result =
                                          Some(rtDelegate(RoundTripHeader(t, h, dkeys, okeys), out).result),
                                      !.baseCalls =
                                          rtDelegate(RoundTripHeader(t, h, dkeys, okeys), out).baseCalls,
                                      !.baseOut = Some(out)]
            /\ UNCHANGED <<utls, version, ctorRes, spec, bt, dt, tr, heap, calls>>

NextRoundTrip ==
    \/ \E h \in CallerHeaders : MakeRequest(h)
    \/ RoundTrip(1)

SpecRoundTrip == InitRoundTrip /\ [][NextRoundTrip]_vars

\* the request the last RoundTrip was given, as it is now
LastHeader == reqs[last.req].Header
LastMade == reqs[last.req].made

\* how many times the value v occurs in the list vs
Count(vs, v) == Cardinality({i \in 1..Len(vs) : vs[i] = v})

\* the request header h carries a non-empty value for the name key
CarriesValue(h, key) == key \in DOMAIN h /\ \E i \in 1..Len(h[key]) : h[key][i] # EmptyString

\* C1 as claimed: for every default header name, a request that carried a
\* non-empty value for it carries exactly the caller's values for it after
\* RoundTrip, and the default value is written (only) when the request carried
\* no non-empty value for it.
C1_CallerValuesWin ==
    (last.op = "RoundTrip") =>
        \A key \in DOMAIN tr[1].defaultHeaders :
            IF CarriesValue(last.headerBefore, key)
            THEN LastHeader[key] = last.headerBefore[key]
            ELSE LastHeader[key] = <<tr[1].defaultHeaders[key][1]>>

\* C2: every request handed to the base executor carries, under the
\* pseudo-header-order key, the pseudo-header order of the ClientSpec the
\* Transport was built from, whatever annotation the request carried before.
C2_PseudoHeaderOrderFixed ==
    (last.op = "RoundTrip") =>
        /\ PHeaderOrderKey \in DOMAIN last.handed
        /\ SliceElems(last.handed[PHeaderOrderKey]) = TheSpec.http2Options.PseudoHeaderOrder
        /\ last.handed = LastHeader

\* C2's case: the request came with a pseudo-header-order annotation of its own
\* that differs from the ClientSpec's order
C2_Witness ==
    /\ last.op = "RoundTrip"
    /\ PHeaderOrderKey \in DOMAIN last.headerBefore
    /\ SliceElems(last.headerBefore[PHeaderOrderKey]) # TheSpec.http2Options.PseudoHeaderOrder
    /\ Len(last.headerBefore[PHeaderOrderKey]) = 4

\* C3 as claimed: for a request the caller put no header order on, after each
\* RoundTrip the header-order list names every key of the header once and
\* nothing else, every header name the caller set is still there, and every
\* non-empty value the caller set is there as many times as the caller put it
\* (the pseudo-header-order annotation apart, which RoundTrip replaces).
C3_OrderIsPermutationNothingDropped ==
    (last.op = "RoundTrip" /\ HeaderOrderKey \notin DOMAIN LastMade) =>
        /\ HeaderOrderKey \in DOMAIN LastHeader
        /\ LET names == DOMAIN LastHeader \ {HeaderOrderKey}
               ord == LastHeader[HeaderOrderKey]
           IN  /\ Len(ord) = Cardinality(names)
               /\ {ord[i][1] : i \in 1..Len(ord)} = names
        /\ \A k \in DOMAIN LastMade \ {PHeaderOrderKey} :
               /\ k \in DOMAIN LastHeader
               /\ \A v \in Range(LastMade[k]) :
                      v # EmptyString => Count(LastHeader[k], v) = Count(LastMade[k], v)

----------------------------------------------------------------------------
(* SpecConcurrent: two goroutines call RoundTrip on one Transport at the   *)
(* same time, each on a request of its own; the statements of the two      *)
(* calls interleave                                                        *)

\* the product of the numbers of shuffles the two requests can get is at most
\* this
MaxShuffles == 120

Callers == {1, 2}

RECURSIVE Factorial(_)
Factorial(n) == IF n = 0 THEN 1 ELSE n * Factorial(n - 1)

\* how many lists rand.Shuffle can leave for a request made with header h
NumShuffles(t, h) ==
    IF HeaderOrderKey \in DOMAIN h THEN 1
    ELSE Factorial(Cardinality(DOMAIN h \cup DOMAIN t.defaultHeaders \cup {PHeaderOrderKey}))

\* a call that has not started: pc is the statement the goroutine is at, todo
\* the entries of t.defaultHeaders the range loop has still to visit
IdleCall == [pc |-> "start", todo |-> {}, result |-> None]

InitConcurrent ==
    /\ utls = AllHelloIDs
    /\ version = <<>>
    /\ ctorRes = NotCalled
    /\ spec \in SpecChoices
    /\ tr = NewTransport(spec[1], PlatformMac, defaultTransport, "dt").tr
    /\ dt = NewTransport(spec[1], PlatformMac, defaultTransport, "dt").base
    /\ bt = FreshTransport
    /\ last = NoLast
    /\ heap = EmptyHeap
    /\ reqs \in {<<NewRequest(h1), NewRequest(h2)>> : h1 \in CallerHeaders, h2 \in CallerHeaders}
    /\ NumShuffles(tr[1], reqs[1].made) * NumShuffles(tr[1], reqs[2].made) <= MaxShuffles
    /\ calls = [p \in Callers |-> IdleCall]

\* header[http.PHeaderOrderKey] = t.pseudoHeaderOrder, and the range loop over
\* t.defaultHeaders begins
RoundTrip_SetPseudoHeaderOrder(p) ==
    /\ calls[p].pc = "start"
    /\ reqs' = [reqs EXCEPT ![p].Header = rtSetPseudo(tr[1], reqs[p].Header)]
    /\ calls' = [calls EXCEPT ![p].pc = "defaults", ![p].todo = DOMAIN tr[1].defaultHeaders]
    /\ UNCHANGED <<utls, version, ctorRes, spec, bt, dt, tr, last, heap>>

\* one iteration of the loop, caching the caller's value in the Transport
RoundTrip_Default_Caching(p, key) ==
    /\ calls[p].pc = "defaults"
    /\ key \in calls[p].todo
    /\ reqs' = [reqs EXCEPT ![p].Header = rtDefault(tr[1], reqs[p].Header, key)]
    /\ tr' = IF HeaderGet(reqs[p].Header, key) # EmptyString
             THEN [tr EXCEPT ![1].defaultHeaders[key] = <<HeaderGet(reqs[p].Header, key)>>]
             ELSE tr
    /\ calls' = [calls EXCEPT ![p].todo = calls[p].todo \ {key}]
    /\ UNCHANGED <<utls, version, ctorRes, spec, bt, dt, last, heap>>

\* one iteration of the loop over t.defaultHeaders, for the entry key
RoundTrip_Default(p, key) ==
    /\ calls[p].pc = "defaults"
    /\ key \in calls[p].todo
    /\ reqs' = [reqs EXCEPT ![p].Header = rtDefault(tr[1], reqs[p].Header, key)]
    /\ calls' = [calls EXCEPT ![p].todo = calls[p].todo \ {key}]
    /\ UNCHANGED <<utls, version, ctorRes, spec, bt, dt, tr, last, heap>>

\* the loop is over; if header[http.HeaderOrderKey] == nil { ... }
RoundTrip_HeaderOrder(p) ==
    /\ calls[p].pc = "defaults"
    /\ calls[p].todo = {}
    /\ \E keys \in ShuffledKeys(reqs[p].Header) :
           reqs' = [reqs EXCEPT ![p].Header = rtOrder(reqs[p].Header, keys)]
    /\ calls' = [calls EXCEPT ![p].pc = "delegate"]
    /\ UNCHANGED <<utls, version, ctorRes, spec, bt, dt, tr, last, heap>>

\* return t.transport.RoundTrip(req)
RoundTrip_Delegate(p) ==
    /\ calls[p].pc = "delegate"
    /\ \E out \in BaseOutcomes :
           calls' = [calls EXCEPT ![p].pc = "done",
                                  ![p].result = Some(rtDelegate(reqs[p].Header, out).result)]
    /\ UNCHANGED <<utls, version, ctorRes, spec, bt, dt, tr, last, heap, reqs>>

NextConcurrent ==
    \/ \E p \in Callers : RoundTrip_SetPseudoHeaderOrder(p)
    \/ \E p \in Callers : \E key \in calls[p].todo : RoundTrip_Default(p, key)
    \/ \E p \in Callers : RoundTrip_HeaderOrder(p)
    \/ \E p \in Callers : RoundTrip_Delegate(p)

SpecConcurrent == InitConcurrent /\ [][NextConcurrent]_vars

\* the elements of a set, listed in one order
RECURSIVE SetToSeq(_)
SetToSeq(S) == IF S = {} THEN <<>> ELSE LET x == CHOOSE x \in S : TRUE IN <<x>> \o SetToSeq(S \ {x})

\* the headers a and b are the same but for the order of a generated
\* header-order list
SameUpToHeaderOrder(a, b, generated) ==
    /\ DOMAIN a = DOMAIN b
    /\ \A k \in DOMAIN a \ {HeaderOrderKey} : a[k] = b[k]
    /\ HeaderOrderKey \in DOMAIN a =>
           IF generated
           THEN /\ Len(a[HeaderOrderKey]) = Len(b[HeaderOrderKey])
                /\ Range(a[HeaderOrderKey]) = Range(b[HeaderOrderKey])
           ELSE a[HeaderOrderKey] = b[HeaderOrderKey]

\* the request r is as a RoundTrip that ran alone on the header the caller
\* made would have left it, whatever order the loop over the defaults took
AsIfAlone(r) ==
    \A dkeys \in Perms(DOMAIN tr[1].defaultHeaders) :
        LET h == rtDefaults(tr[1], rtSetPseudo(tr[1], r.made), dkeys)
        IN  SameUpToHeaderOrder(r.Header, rtOrder(h, SetToSeq(DOMAIN h)),
                                HeaderOrderKey \notin DOMAIN r.made)

\* C9: in every interleaving of two RoundTrip calls on distinct requests, a
\* step that is not of the call on request p leaves request p as it is, no step
\* writes the Transport (its pseudo-header order, its default headers) or the
\* ClientSpec, and a call that returns leaves its request as a call that ran
\* alone would have, up to the order of the generated header-order list.
C9_ConcurrentCallsIndependent ==
    [][/\ tr' = tr
       /\ spec' = spec
       /\ \A p \in Callers :
              /\ (calls'[p] = calls[p]) => (reqs'[p] = reqs[p])
              /\ (calls'[p].pc = "done" /\ calls[p].pc # "done") => AsIfAlone(reqs'[p])]_vars

\* C9's case: both calls are in flight at once, each has written its request
\* while the other was running, and the two requests came with different
\* headers, one of them with a caller value for a default header
C9_Witness ==
    /\ calls[1].pc = "delegate"
    /\ calls[2].pc = "delegate"
    /\ reqs[1].made # reqs[2].made
    /\ CarriesValue(reqs[1].made, "User-Agent")
    /\ ~CarriesValue(reqs[2].made, "User-Agent")
    /\ reqs[1].Header["User-Agent"] # reqs[2].Header["User-Agent"]

----------------------------------------------------------------------------
(* Properties of the delegation to the base executor and of the header     *)
(* order, under SpecRoundTrip                                              *)

\* C11: a RoundTrip call calls the base executor exactly once, with the request
\* as the header mutations left it (pseudo-header order, defaults, header
\* order), and returns the response and the error the base executor returned,
\* the error neither wrapped nor replaced, with no second call after an error.
C11_DelegatesOnceUnchanged ==
    (last.op = "RoundTrip") =>
        /\ Len(last.baseCalls) = 1
        /\ last.baseCalls[1] = LastHeader
        /\ PHeaderOrderKey \in DOMAIN last.baseCalls[1]
        /\ HeaderOrderKey \in DOMAIN last.baseCalls[1]
        /\ \A key \in DOMAIN tr[1].defaultHeaders : key \in DOMAIN last.baseCalls[1]
        /\ last.result = last.baseOut
        /\ last.result[1].err.msg = last.baseOut[1].err.msg

\* C11's case: the base executor failed on a request that needed every
\* mutation (no annotation, no default, no header order on it before)
C11_Witness ==
    /\ last.op = "RoundTrip"
    /\ last.headerBefore = EmptyHeader
    /\ last.baseOut[1].err # NoError
    /\ last.result[1].resp = None

\* C12: when the request came to RoundTrip with a header-order list, the list
\* is the same list afterwards (same names, same order), also when the defaults
\* add names the list does not mention; a list is generated only when the
\* request came without one.
C12_CallerHeaderOrderKept ==
    (last.op = "RoundTrip") =>
        /\ HeaderOrderKey \in DOMAIN LastHeader
        /\ HeaderOrderKey \in DOMAIN last.headerBefore =>
               LastHeader[HeaderOrderKey] = last.headerBefore[HeaderOrderKey]
        /\ HeaderOrderKey \in DOMAIN LastMade =>
               LastHeader[HeaderOrderKey] = LastMade[HeaderOrderKey]

\* C12's case: the caller's list names two headers, and RoundTrip has added
\* the pseudo-header order and defaults besides it
C12_Witness ==
    /\ last.op = "RoundTrip"
    /\ HeaderOrderKey \in DOMAIN LastMade
    /\ LastHeader[HeaderOrderKey] = <<Str("accept"), Str("user-agent")>>
    /\ "User-Agent" \in DOMAIN LastHeader
    /\ "User-Agent" \notin DOMAIN LastMade

----------------------------------------------------------------------------
(* SpecProfile: the three constructors applied to every numeric major      *)
(* version up to MaxMajor, for the profile tables                          *)

\* the largest major version tried
MaxMajor == 140

DigitChars == <<"0", "1", "2", "3", "4", "5", "6", "7", "8", "9">>

\* the decimal text of n >= 0
RECURSIVE Itoa(_)
Itoa(n) == IF n < 10 THEN <<DigitChars[n + 1]>> ELSE Itoa(n \div 10) \o <<DigitChars[(n % 10) + 1]>>

NumericVersions == {Itoa(m) \o s : m \in 0..MaxMajor, s \in {<<>>, <<".", "0", ".", "1">>}}

InitProfile ==
    /\ utls = AllHelloIDs
    /\ version \in NumericVersions
    /\ ctorRes = NotCalled
    /\ spec = None
    /\ bt = FreshTransport
    /\ dt = FreshTransport
    /\ tr = None
    /\ last = NoLast
    /\ heap = EmptyHeap
    /\ reqs = <<>>
    /\ calls = <<>>

SpecProfile == InitProfile /\ [][NextVersion]_vars

\* the major version the string in version stands for
Major == IntegerValue(LeadingComponent(version))

\* the lookup the profile tables are read by: the profile of the first entry
\* <<bound, profile>> whose bound exceeds m, else the newest profile
RECURSIVE TableLookup(_, _, _)
TableLookup(table, m, newest) ==
    IF table = <<>> THEN newest
    ELSE IF m < Head(table)[1] THEN Head(table)[2]
    ELSE TableLookup(Tail(table), m, newest)

ChromiumTLSTable ==
    << <<102, "HelloChrome_100">>, <<106, "HelloChrome_102">>,
       <<112, "HelloChrome_106_Shuffle">>, <<114, "HelloChrome_112_PSK_Shuf">>,
       <<115, "HelloChrome_114_Padding_PSK_Shuf">>, <<120, "HelloChrome_115_PQ">>,
       <<131, "HelloChrome_120">>, <<133, "HelloChrome_131">> >>

\* C13: for every major version m >= 100 and every brand, Chromium returns a
\* spec whose TLS profile, the one its hello supplier builds on every supported
\* platform,
\* is the table lookup's over the bounds 102, 106, 112, 114, 115, 120, 131, 133
\* with newest profile 133.
C13_ChromiumTLSProfileIsTableLookup ==
    (ctorRes.fn = "Chromium" /\ Major >= 100) =>
        /\ ctorRes.spec # None
        /\ ctorRes.spec[1].helloID = TableLookup(ChromiumTLSTable, Major, "HelloChrome_133")
        /\ \A p \in Supported("chromium") :
               tlsSpecFn(ctorRes.spec[1], p).fn = newTLSSpecFunc(ctorRes.spec[1].helloID)

\* C13's case: Chrome 137 resolves to profile 133
C13_Witness ==
    /\ ctorRes.fn = "Chromium"
    /\ ctorRes.brand = BrandChrome
    /\ Major = 137
    /\ ctorRes.spec # None
    /\ ctorRes.spec[1].helloID = "HelloChrome_133"

\* the first major version of the band m lies in
ChromiumBand(m) == IF m < 107 THEN 100 ELSE IF m < 120 THEN 107 ELSE 120

\* C14: for every major version m >= 100 the HTTP/2 profile of a Chromium spec
\* depends only on which of the bands m < 107, 107 <= m <= 119, m >= 120 holds
\* m; InitialWindowSize is 6291456, HeaderTableSize 65536 and the pseudo-header
\* order method, authority, scheme, path in each; MaxHeaderListSize is 100000
\* in the first band and 262144 in the other two.
C14_ChromiumHTTP2Bands ==
    (ctorRes.fn = "Chromium" /\ Major >= 100) =>
        /\ ctorRes.spec # None
        /\ LET o == ctorRes.spec[1].http2Options
           IN  /\ o.InitialWindowSize = 6291456
               /\ o.HeaderTableSize = 65536
               /\ o.PseudoHeaderOrder =
                      <<Str(":method"), Str(":authority"), Str(":scheme"), Str(":path")>>
               /\ o.MaxHeaderListSize = (IF Major < 107 THEN 100000 ELSE 262144)
               /\ o = chromiumHTTP2Options(ChromiumBand(Major))
               /\ \A i \in 1..Len(o.Settings) :
                      /\ o.Settings[i].ID = SettingMaxHeaderListSize =>
                             o.Settings[i].Val = o.MaxHeaderListSize
                      /\ o.Settings[i].ID = SettingInitialWindowSize =>
                             o.Settings[i].Val = o.InitialWindowSize
                      /\ o.Settings[i].ID = SettingHeaderTableSize =>
                             o.Settings[i].Val = o.HeaderTableSize

\* C14's case: Edge 106, the last version of the first band
C14_Witness ==
    /\ ctorRes.fn = "Chromium"
    /\ ctorRes.brand = BrandEdge
    /\ Major = 106
    /\ ctorRes.spec # None
    /\ ctorRes.spec[1].http2Options.MaxHeaderListSize = 100000

FirefoxTLSTable ==
    << <<56, "HelloFirefox_55">>, <<63, "HelloFirefox_56">>, <<65, "HelloFirefox_63">>,
       <<99, "HelloFirefox_65">>, <<102, "HelloFirefox_99">>, <<105, "HelloFirefox_102">>,
       <<120, "HelloFirefox_105">> >>

\* C15: for every major version m >= 55, Firefox returns a spec whose TLS
\* profile, the one its hello supplier builds on every supported platform, is
\* the table lookup's over the bounds 56, 63, 65, 99, 102, 105, 120 with newest
\* profile 120.
C15_FirefoxTLSProfileIsTableLookup ==
    (ctorRes.fn = "Firefox" /\ Major >= 55) =>
        /\ ctorRes.spec # None
        /\ ctorRes.spec[1].helloID = TableLookup(FirefoxTLSTable, Major, "HelloFirefox_120")
        /\ \A p \in Supported("firefox") :
               tlsSpecFn(ctorRes.spec[1], p).fn = newTLSSpecFunc(ctorRes.spec[1].helloID)

\* C15's case: Firefox 101, inside the band of profile 99
C15_Witness ==
    /\ ctorRes.fn = "Firefox"
    /\ Major = 101
    /\ ctorRes.spec # None
    /\ ctorRes.spec[1].helloID = "HelloFirefox_99"

----------------------------------------------------------------------------
(* Properties of ConfigureTransport, under Spec *)

\* C16: ConfigureTransport of a Safari spec, whatever its version, installs
\* the supplier of the ios-14 profile for platform ios and of the safari-16.0
\* profile for mac and ipados, and returns nil when the transport had no HTTP/2
\* layer yet; for win and linux it returns ErrUnsupportedPlatform and leaves
\* the transport as it was.
C16_SafariProfileByPlatform ==
    (last.op = "ConfigureTransport" /\ TheSpec.family = "safari") =>
        /\ last.platform = PlatformIOS =>
               bt.GetTlsClientHelloSpec = newTLSSpecFunc("HelloIOS_14")
        /\ last.platform \in {PlatformMac, PlatformIPadOS} =>
               bt.GetTlsClientHelloSpec = newTLSSpecFunc("HelloSafari_16_0")
        /\ (last.platform \in Supported("safari") /\ last.before[1].h2 = None) =>
               last.err = NoError
        /\ last.platform \in {PlatformWindows, PlatformLinux} =>
               /\ ErrorsIs(last.err, ErrUnsupportedPlatform)
               /\ bt = last.before[1]

\* C16's case: Safari 16 configured for ipados gets the desktop profile
C16_Witness ==
    /\ last.op = "ConfigureTransport"
    /\ TheSpec.family = "safari"
    /\ TheSpec.version = V16
    /\ last.platform = PlatformIPadOS
    /\ last.err = NoError
    /\ bt.GetTlsClientHelloSpec = newTLSSpecFunc("HelloSafari_16_0")

----------------------------------------------------------------------------
(* SpecValidate: the constructors linked against utls releases that do not *)
(* resolve every hello id, and ConfigureTransport of the spec constructed  *)

\* the hello ids a utls release may lack, one release each
MissingChoices ==
    {{}, {"HelloIOS_14"}, {"HelloSafari_16_0"}, {"HelloChrome_133"}, {"HelloChrome_100"},
     {"HelloFirefox_120"}, {"HelloFirefox_65"}}

\* versions on both sides of each family's minimum and of the profile bounds
\* the releases above tell apart
ValidateVersions ==
    {Itoa(m) : m \in {15, 16, 18, 54, 55, 98, 99, 100, 101, 102, 120, 132, 133, 137}}

InitValidate ==
    /\ utls \in {AllHelloIDs \ m : m \in MissingChoices}
    /\ version \in ValidateVersions
    /\ ctorRes = NotCalled
    /\ spec = None
    /\ bt = FreshTransport
    /\ dt = FreshTransport
    /\ tr = None
    /\ last = NoLast
    /\ heap = EmptyHeap
    /\ reqs = <<>>
    /\ calls = <<>>

\* spec.ConfigureTransport(bt, platform) with the spec the constructor returned
ConfigureConstructed(platform) ==
    /\ ctorRes.spec # None
    /\ LET r == ConfigureTransport(ctorRes.spec[1], bt, platform)
       IN  /\ bt' = r.t
           /\ last' = [NoLast EXCEPT !.op = "ConfigureTransport", !.platform = platform,
                                     !.base = "bt", !.before = Some(bt), !.err = r.err]
    /\ UNCHANGED <<utls, version, ctorRes, spec, dt, tr, heap, reqs, calls>>

NextValidate ==
    \/ \E brand \in Brands : CallChromium(brand)
    \/ CallSafari
    \/ CallFirefox
    \/ \E p \in Platforms : ConfigureConstructed(p)

SpecValidate == InitValidate /\ [][NextValidate]_vars

\* the TLS profiles a ConfigureTransport of a spec of the family fn and major
\* version m can install
ReachableProfiles(fn, m) ==
    CASE fn = "Chromium" -> {TableLookup(ChromiumTLSTable, m, "HelloChrome_133")}
      [] fn = "Firefox" -> {TableLookup(FirefoxTLSTable, m, "HelloFirefox_120")}
      [] fn = "Safari" -> {"HelloSafari_16_0", "HelloIOS_14"}

\* C17: a constructor called with a supported version returns a spec only when
\* utls resolves every TLS profile a ConfigureTransport of that spec can
\* install on any platform, and otherwise returns no spec and the resolution
\* error; so every supplier a constructed spec yields, and every supplier
\* installed on a transport, is of a profile utls resolves.
C17_EveryReachableProfileValidated ==
    /\ Called =>
           /\ ctorRes.spec # None =>
                  \A p \in Platforms :
                      tlsSpecFn(ctorRes.spec[1], p).err = NoError =>
                          UTLSIdToSpec(tlsSpecFn(ctorRes.spec[1], p).fn).err = NoError
           /\ (Major >= FamilyMinimum(ctorRes.fn)
                 /\ ~(ReachableProfiles(ctorRes.fn, Major) \subseteq utls)) =>
                  /\ ctorRes.spec = None
                  /\ ErrorsIs(ctorRes.err, ErrUnknownHello)
           /\ (Major >= FamilyMinimum(ctorRes.fn)
                 /\ ReachableProfiles(ctorRes.fn, Major) \subseteq utls) =>
                  ctorRes.spec # None
    /\ bt.GetTlsClientHelloSpec # NoSupplier =>
           UTLSIdToSpec(bt.GetTlsClientHelloSpec).err = NoError

\* C17's case: Safari refused because utls does not resolve the iOS profile,
\* though the desktop profile resolves
C17_Witness ==
    /\ ctorRes.fn = "Safari"
    /\ Major >= 16
    /\ "HelloIOS_14" \notin utls
    /\ "HelloSafari_16_0" \in utls
    /\ ctorRes.spec = None
    /\ ErrorsIs(ctorRes.err, ErrUnknownHello)

\* C18: after a successful ConfigureTransport the HTTP/2 configuration of the
\* transport holds the spec's SETTINGS list, MaxHeaderListSize,
\* InitialWindowSize and HeaderTableSize; its connection flow-control value is
\* the profile's when that is non-zero and its header priority the profile's
\* when that is set, and each is the value the HTTP/2 layer made it with
\* otherwise.
C18_HTTP2FieldsCopied ==
    (last.op = "ConfigureTransport" /\ last.err = NoError) =>
        /\ bt.h2 # None
        /\ LET h == bt.h2[1]
               o == TheSpec.http2Options
           IN  /\ h.Settings = o.Settings
               /\ h.MaxHeaderListSize = o.MaxHeaderListSize
               /\ h.InitialWindowSize = o.InitialWindowSize
               /\ h.HeaderTableSize = o.HeaderTableSize
               /\ h.TransportConnFlow =
                      (IF o.ConnectionFlow # 0 THEN o.ConnectionFlow
                       ELSE NewHTTP2Transport.TransportConnFlow)
               /\ h.HeaderPriority =
                      (IF o.HeaderPriority # None THEN o.HeaderPriority
                       ELSE NewHTTP2Transport.HeaderPriority)

\* C18's case: a Chromium profile, which has neither a connection flow-control
\* value nor a header priority, configured with success
C18_Witness ==
    /\ last.op = "ConfigureTransport"
    /\ last.err = NoError
    /\ TheSpec.family = "chromium"
    /\ TheSpec.http2Options.ConnectionFlow = 0
    /\ TheSpec.http2Options.HeaderPriority = None
    /\ bt.h2 # None
    /\ bt.h2[1].Settings = TheSpec.http2Options.Settings
    /\ Len(bt.h2[1].Settings) > 0

\* C19 as claimed: ConfigureTransport with a supported platform on a
\* transport whose HTTP/2 layer is enabled already returns nil and leaves the
\* transport with the spec's hello supplier and HTTP/2 profile.
C19_SafeWhenHTTP2Enabled ==
    (/\ last.op = "ConfigureTransport"
     /\ last.platform \in Supported(TheSpec.family)
     /\ last.before[1].h2 # None) =>
        /\ last.err = NoError
        /\ bt.GetTlsClientHelloSpec = tlsSpecFn(TheSpec, last.platform).fn
        /\ bt.h2 # None
        /\ bt.h2[1].Settings = TheSpec.http2Options.Settings

----------------------------------------------------------------------------
(* Properties of the default headers, under SpecProfile *)

\* the family a constructor makes specs of
FamilyOf(fn) ==
    CASE fn = "Chromium" -> "chromium" [] fn = "Safari" -> "safari" [] fn = "Firefox" -> "firefox"

\* the names the default header set of a family has
DefaultHeaderNames(family) ==
    IF family = "chromium"
    THEN {CanonicalHeaderKey("user-agent"), CanonicalHeaderKey("sec-ch-ua"),
          CanonicalHeaderKey("sec-ch-ua-mobile"), CanonicalHeaderKey("sec-ch-ua-platform")}
    ELSE {CanonicalHeaderKey("user-agent")}

\* C20: for every spec a constructor returns (every brand, every supported
\* version) and every platform its family supports, the header builder
\* succeeds and the header set has exactly the names user-agent, sec-ch-ua,
\* sec-ch-ua-mobile, sec-ch-ua-platform for Chromium and user-agent alone for
\* Safari and Firefox, each with one value.
C20_DefaultHeaderNames ==
    (Called /\ ctorRes.spec # None) =>
        \A p \in Supported(FamilyOf(ctorRes.fn)) :
            LET r == buildHeaders(ctorRes.spec[1], p)
            IN  /\ r.err = NoError
                /\ DOMAIN r.headers = DefaultHeaderNames(FamilyOf(ctorRes.fn))
                /\ \A k \in DOMAIN r.headers : Len(r.headers[k]) = 1

\* C20's case: a Brave spec, whose headers for linux carry the client hints,
\* and which was built from a version with minor parts
C20_Witness ==
    /\ ctorRes.fn = "Chromium"
    /\ ctorRes.brand = BrandBrave
    /\ ctorRes.spec # None
    /\ Len(version) > 3
    /\ CanonicalHeaderKey("sec-ch-ua-platform")
           \in DOMAIN buildHeaders(ctorRes.spec[1], PlatformLinux).headers

----------------------------------------------------------------------------
(* SpecCaller: a ClientSpec from its constructor to the requests sent       *)
(* through a Transport built from it, with what the caller can do in        *)
(* between: call the accessors, configure a transport, build a Transport,   *)
(* send a request, add a header to a request and send it again, and write   *)
(* into a slice an accessor or a request handed out                         *)

\* the constructor calls the ClientSpecs come from: function, brand, version
\* (the two families whose Transports have one default header)
CallerCtors == {<<"Safari", "", V18>>, <<"Firefox", "", V134>>}

\* the platforms the caller configures and builds for
CallerPlatforms == {PlatformMac, PlatformWindows}

\* fn(brand, v)
Construct(fn, brand, v) ==
    CASE fn = "Chromium" -> Chromium(brand, v)
      [] fn = "Safari" -> Safari(v)
      [] fn = "Firefox" -> Firefox(v)

\* the headers the caller makes requests with, none of them with a header
\* order
CallerRequestHeaders == {H_none, H_ua}

\* what the caller may store into an element of a slice it holds
WrittenNames == {Str(":path"), Str("x-injected")}
\* the elements it may store into
WrittenIndexes == {1}

\* where the caller may have a slice of the pseudo-header order from
SliceSources == {"PseudoHeaderOrder()", "HTTP2Opts().PseudoHeaderOrder", "req.Header[PHeaderOrderKey]"}

InitCaller ==
    /\ utls = AllHelloIDs
    /\ \E c \in CallerCtors :
           /\ version = c[3]
           /\ ctorRes = [fn |-> c[1], brand |-> c[2],
                         spec |-> Construct(c[1], c[2], c[3]).spec,
                         err |-> Construct(c[1], c[2], c[3]).err]
           /\ spec = Construct(c[1], c[2], c[3]).spec
    /\ bt = FreshTransport
    /\ dt = FreshTransport
    /\ tr = None
    /\ last = NoLast
    /\ heap = EmptyHeap
    /\ reqs = <<>>
    /\ calls = <<>>

\* spec.Version()
CallVersion ==
    /\ last' = [NoLast EXCEPT !.op = "Version", !.result = Some(Version(TheSpec))]
    /\ UNCHANGED <<utls, version, ctorRes, spec, bt, dt, tr, heap, reqs, calls>>

\* spec.PseudoHeaderOrder()
CallPseudoHeaderOrder ==
    /\ last' = [NoLast EXCEPT !.op = "PseudoHeaderOrder",
                              !.result = Some(PseudoHeaderOrder(TheSpec))]
    /\ UNCHANGED <<utls, version, ctorRes, spec, bt, dt, tr, heap, reqs, calls>>

\* spec.HTTP2Opts()
CallHTTP2Opts ==
    /\ last' = [NoLast EXCEPT !.op = "HTTP2Opts", !.result = Some(HTTP2Opts(TheSpec))]
    /\ UNCHANGED <<utls, version, ctorRes, spec, bt, dt, tr, heap, reqs, calls>>

\* s[i-1] = name, where s is a slice the caller got from via.  Each of the
\* three is the slice value c.http2Options.PseudoHeaderOrder, so the store
\* goes to the ClientSpec's backing array.
CallerWritesSlice(via, i, name) ==
    /\ via = "req.Header[PHeaderOrderKey]" =>
           \E r \in 1..Len(reqs) :
               /\ PHeaderOrderKey \in DOMAIN reqs[r].Header
               /\ reqs[r].Header[PHeaderOrderKey] = SliceOfSpecOrder
    /\ spec' = [spec EXCEPT ![1].http2Options.PseudoHeaderOrder[i] = name]
    /\ last' = [NoLast EXCEPT !.op = "WriteSlice", !.via = via]
    /\ UNCHANGED <<utls, version, ctorRes, bt, dt, tr, heap, reqs, calls>>

\* req.Header.Set(key, value) by the caller, on a request it made before
CallerSetsHeader(key, value) ==
    /\ Len(reqs) = 1
    /\ reqs' = [reqs EXCEPT ![1].Header = HeaderSet(reqs[1].Header, key, value),
                            ![1].made = HeaderSet(reqs[1].made, key, value)]
    /\ last' = [NoLast EXCEPT !.op = "SetHeader"]
    /\ UNCHANGED <<utls, version, ctorRes, spec, bt, dt, tr, heap, calls>>

\* tr.RoundTrip(req) once a Transport and a request are there
CallerRoundTrip ==
    /\ tr # None
    /\ Len(reqs) = 1
    /\ RoundTrip(1)

NextCaller ==
    \/ CallVersion
    \/ CallPseudoHeaderOrder
    \/ CallHTTP2Opts
    \/ \E via \in SliceSources : \E i \in WrittenIndexes : \E name \in WrittenNames :
           CallerWritesSlice(via, i, name)
    \/ \E p \in CallerPlatforms : DoConfigureTransport(p)
    \/ \E p \in CallerPlatforms : DoNewTransport(p)
    \/ \E h \in CallerRequestHeaders : MakeRequest(h)
    \/ CallerSetsHeader("accept", Str("text/html"))
    \/ CallerRoundTrip

SpecCaller == InitCaller /\ [][NextCaller]_vars

\* C21: after any sequence of accessor calls, ConfigureTransport, NewTransport,
\* RoundTrip on a Transport built from the spec, and caller writes into the
\* slices handed out, the ClientSpec's version is the version string the
\* constructor was called with, and Version() returns exactly it.
C21_VersionNeverChanges ==
    /\ Version(TheSpec) = version
    /\ TheSpec.version = ctorRes.spec[1].version
    /\ last.op = "Version" => last.result = Some(version)

\* C21's case: Version() called after the transport was configured, a
\* Transport built, a request sent through it, and the spec's pseudo-header
\* order overwritten by the caller
C21_Witness ==
    /\ last.op = "Version"
    /\ last.result = Some(V18)
    /\ bt.h2 # None
    /\ tr # None
    /\ Len(reqs) = 1
    /\ HeaderOrderKey \in DOMAIN reqs[1].Header
    /\ spec # ctorRes.spec

\* the four pseudo-header names
PseudoHeaderNames == {Str(":method"), Str(":authority"), Str(":scheme"), Str(":path")}

\* C22 as claimed: every call of PseudoHeaderOrder() returns 4 pairwise
\* distinct names, a permutation of :method, :authority, :scheme, :path, and
\* the same sequence as the spec had when it was constructed.
C22_PseudoHeaderOrderFourDistinctStable ==
    (last.op = "PseudoHeaderOrder") =>
        /\ Len(last.result[1]) = 4
        /\ Range(last.result[1]) = PseudoHeaderNames
        /\ last.result[1] = ctorRes.spec[1].http2Options.PseudoHeaderOrder

----------------------------------------------------------------------------
(* Properties of the Chromium user-agent, under SpecProfile *)

\* the string s ends with the string suffix
EndsWith(s, suffix) ==
    /\ Len(s) >= Len(suffix)
    /\ SubSeq(s, Len(s) - Len(suffix) + 1, Len(s)) = suffix

\* the user-agent default header of spec c on platform p
UserAgentOf(c, p) == HeaderGet(buildHeaders(c, p).headers, "user-agent")

\* C23: for every version Chromium accepts and every platform it supports, the
\* user-agent ends with " Edg/" followed by the full version string exactly
\* when the brand is Edge; for Chrome and Brave it has no such suffix and is
\* the same string for the two brands.
C23_EdgeSuffixIffEdge ==
    (ctorRes.fn = "Chromium" /\ ctorRes.spec # None) =>
        \A p \in Supported("chromium") :
            /\ buildHeaders(ctorRes.spec[1], p).err = NoError
            /\ EndsWith(UserAgentOf(ctorRes.spec[1], p), <<" Edg/">> \o version)
                   <=> (ctorRes.brand = BrandEdge)
            /\ ctorRes.brand # BrandEdge =>
                   /\ \A i \in 1..Len(UserAgentOf(ctorRes.spec[1], p)) :
                          UserAgentOf(ctorRes.spec[1], p)[i] # " Edg/"
                   /\ UserAgentOf(ctorRes.spec[1], p)
                          = UserAgentOf(Chromium(BrandChrome, version).spec[1], p)
                   /\ UserAgentOf(ctorRes.spec[1], p)
                          = UserAgentOf(Chromium(BrandBrave, version).spec[1], p)

\* C23's case: Edge 120.0.1 on windows, whose user-agent ends with the whole
\* version string after " Edg/"
C23_Witness ==
    /\ ctorRes.fn = "Chromium"
    /\ ctorRes.brand = BrandEdge
    /\ ctorRes.spec # None
    /\ version = <<"1", "2", "0", ".", "0", ".", "1">>
    /\ EndsWith(UserAgentOf(ctorRes.spec[1], PlatformWindows),
                <<" Edg/", "1", "2", "0", ".", "0", ".", "1">>)

----------------------------------------------------------------------------
(* Properties of failed configurations, under Spec *)

\* C24: when enabling HTTP/2 fails, ConfigureTransport returns an error that
\* names the HTTP/2 enabling stage and wraps the HTTP/2 layer's error; the TLS
\* hello supplier of the spec and platform, installed in the step before, is
\* on the base transport, and the transport's HTTP/2 configuration is what it
\* was before the call: no field of the profile has been written.
C24_NoRollbackOnHTTP2Failure ==
    (last.op = "ConfigureTransport" /\ ErrorsIs(last.err, ErrHTTP2Registered)) =>
        /\ last.err.msg = <<"enabling http2 support">>
        /\ tlsSpecFn(TheSpec, last.platform).err = NoError
        /\ bt.GetTlsClientHelloSpec = tlsSpecFn(TheSpec, last.platform).fn
        /\ bt.h2 = last.before[1].h2

\* C24's case: the failed call has replaced the supplier the transport had
\* before with another one
C24_Witness ==
    /\ last.op = "ConfigureTransport"
    /\ ErrorsIs(last.err, ErrHTTP2Registered)
    /\ last.before[1].GetTlsClientHelloSpec = newTLSSpecFunc("HelloIOS_14")
    /\ bt.GetTlsClientHelloSpec = newTLSSpecFunc("HelloSafari_16_0")
    /\ bt.h2 # None

\* C25 as claimed: when NewTransport with a caller's base transport fails
\* with ErrUnsupportedPlatform for a platform outside the family's set, the
\* base transport's TLS hello supplier and HTTP/2 configuration are what they
\* were before the call.
C25_FailedNewTransportLeavesBase ==
    (/\ last.op = "NewTransport"
     /\ last.base = "bt"
     /\ last.platform \notin Supported(TheSpec.family)
     /\ ErrorsIs(last.err, ErrUnsupportedPlatform)) =>
        /\ tr = None
        /\ bt.GetTlsClientHelloSpec = last.before[1].GetTlsClientHelloSpec
        /\ bt.h2 = last.before[1].h2

----------------------------------------------------------------------------
(* Properties of the generated header-order list, under SpecRoundTrip *)

\* C26 as claimed: the header-order list RoundTrip generates for a request
\* that came without one names neither the pseudo-header-order annotation key
\* nor the header-order annotation key.
C26_OrderListOnlyRealNames ==
    (last.op = "RoundTrip" /\ HeaderOrderKey \notin DOMAIN last.headerBefore) =>
        /\ HeaderOrderKey \in DOMAIN last.handed
        /\ \A i \in 1..Len(last.handed[HeaderOrderKey]) :
               /\ last.handed[HeaderOrderKey][i] # Str(PHeaderOrderKey)
               /\ last.handed[HeaderOrderKey][i] # Str(HeaderOrderKey)

----------------------------------------------------------------------------
(* Properties of what the caller can reach, under SpecCaller *)

\* C27 as claimed: whatever the caller wrote into the slices it holds (the
\* annotation found on a request after RoundTrip, the slice PseudoHeaderOrder()
\* or HTTP2Opts() gave), the pseudo-header order on every request a Transport
\* hands to the base executor is the order the spec was constructed with.
C27_AppliedOrderOutOfCallersReach ==
    (last.op = "RoundTrip") =>
        /\ PHeaderOrderKey \in DOMAIN last.handed
        /\ SliceElems(last.handed[PHeaderOrderKey])
               = ctorRes.spec[1].http2Options.PseudoHeaderOrder

\* C28 as claimed: when the caller put no header-order list on the request,
\* the request handed to the base executor has a header-order list that names
\* every header present on it, also when the request is sent a second time
\* after the caller set another header on it.
C28_OrderListCoversEveryHeader ==
    (last.op = "RoundTrip" /\ HeaderOrderKey \notin DOMAIN LastMade) =>
        /\ HeaderOrderKey \in DOMAIN last.handed
        /\ \A k \in DOMAIN last.handed \ {HeaderOrderKey, PHeaderOrderKey} :
               \E i \in 1..Len(last.handed[HeaderOrderKey]) :
                   last.handed[HeaderOrderKey][i] = Str(k)

----------------------------------------------------------------------------
(* Properties of the HTTP/2 options, under SpecProfile *)

\* the values the SETTINGS list settings has for the setting id
SettingValues(settings, id) ==
    {settings[i].Val : i \in {j \in 1..Len(settings) : settings[j].ID = id}}

\* C29: in the HTTP/2 options of every spec a constructor returns, whatever
\* the family and version, the SETTINGS list has one header-table-size value
\* and it is HeaderTableSize, one initial-window-size value and it is
\* InitialWindowSize, and a max-header-list-size value, when there is one, is
\* MaxHeaderListSize.
C29_ScalarFieldsMatchSettings ==
    (Called /\ ctorRes.spec # None) =>
        LET o == HTTP2Opts(ctorRes.spec[1])
        IN  /\ SettingValues(o.Settings, SettingHeaderTableSize) = {o.HeaderTableSize}
            /\ SettingValues(o.Settings, SettingInitialWindowSize) = {o.InitialWindowSize}
            /\ SettingValues(o.Settings, SettingMaxHeaderListSize) \subseteq {o.MaxHeaderListSize}

\* C29's case: a Safari spec, whose SETTINGS list has the two entries and no
\* max-header-list-size entry
C29_Witness ==
    /\ ctorRes.fn = "Safari"
    /\ ctorRes.spec # None
    /\ SettingValues(HTTP2Opts(ctorRes.spec[1]).Settings, SettingInitialWindowSize) = {2097152}
    /\ SettingValues(HTTP2Opts(ctorRes.spec[1]).Settings, SettingMaxHeaderListSize) = {}
    /\ HTTP2Opts(ctorRes.spec[1]).InitialWindowSize = 2097152

====
